---- MODULE Spec2Model ----
(***************************************************************************)
(* Model of the order-to-freight pipeline of protheus-freight-rpa-python:  *)
(* ProcessadorPedidos (src/src/core/processador_pedidos.py), the           *)
(* configuration it reads (src/src/config.py), LeitorCSV                   *)
(* (src/src/core/leitor_csv.py) and processar_pedidos (src/src/main.py).   *)
(*                                                                         *)
(* Time is counted in ticks, TicksPerDay ticks to a calendar day, so that  *)
(* a datetime (a tick) and its calendar date (x.date()) are different      *)
(* things.  Customer names are tuples of code points, so that equality and *)
(* ordering of names are the ones Python strings have.  A table (pandas    *)
(* DataFrame) is its set of columns and its sequence of rows; every row of *)
(* a table has a customer name and an identifier (no missing cells), and   *)
(* C6_NUM is the row's position in the table handed to the constructor.    *)
(*                                                                         *)
(* DataFrame.sort_values is called without kind=, that is with numpy's     *)
(* quicksort, which does not promise an order for rows with equal keys:    *)
(* ordem_empates is the order the build at hand leaves them in.            *)
(***************************************************************************)
EXTENDS Integers, Sequences, FiniteSets, TLC

VARIABLES
    df,               \* ProcessadorPedidos.df: [colunas, linhas]
    clock,            \* the system clock datetime.now() reads, in ticks
    ordem_empates,    \* how this build's quicksort leaves rows with equal keys
    totais_cliente,   \* last return value of calcular_total_por_cliente
    fila_fretes,      \* last return value of criar_fila_fretes
    hoje,             \* the local hoje of the last criar_fila_fretes call
    resumo,           \* last return value of gerar_resumo_executivo
    retornou,         \* the methods that have returned a value so far
    config,           \* the values of src/src/config.py the modules imported
    tabela,           \* the table the caller handed to ProcessadorPedidos
    ordem,            \* the caller's calls, in the order they returned
    pos,              \* threads: the line each thread's method is at
    em_escrita,       \* threads: a column is being inserted into df
    copia,            \* threads: the local fila_fretes of criar_fila_fretes
    arquivo,          \* the file at CSV_INPUT: [existe, colunas, linhas]
    pc,               \* processar_pedidos: the line of main.py it is at
    excecao,          \* processar_pedidos: the exception raised, "" when none
    excel,            \* processar_pedidos: the Excel report has been written
    num_urgentes,     \* processar_pedidos: its local num_urgentes
    enviados,         \* the messages IntegracaoEmail has sent, in order
    retorno,          \* processar_pedidos: its return value, "" before it returns
    em_execucao,      \* AutomacaoRPA.em_execucao
    thread_scheduler, \* AutomacaoRPA.thread_scheduler: a thread, 0 for None
    loops,            \* the threads that run _loop_scheduler: where each is
    jobs,             \* schedule.jobs: the set of [id, interval, next_run]
    agendadas,        \* how many jobs schedule has created so far
    chamadas,         \* how many calls of AutomacaoRPA methods were made
    chamador,         \* the thread that calls the AutomacaoRPA: where it is
    execucoes,        \* the jobs whose last execution raised
    self_df           \* which object ProcessadorPedidos.df is: "" before the
                      \* constructor, "copia" an object of the processor's
                      \* own, "tabela" the object the caller holds

(* what the methods of ProcessadorPedidos read and assign *)
vars_processador ==
    <<df, clock, ordem_empates, totais_cliente, fila_fretes, hoje, resumo, retornou>>

(* the state of the threads that run the methods in parallel *)
threads == <<pos, em_escrita, copia>>

(* the state of an AutomacaoRPA and of the schedule module *)
rpa == <<em_execucao, thread_scheduler, loops, jobs, agendadas, chamadas, chamador, execucoes>>

(* the state of a run of processar_pedidos outside the processor *)
pipeline == <<arquivo, pc, excecao, excel, num_urgentes, enviados, retorno>>

(* what no method of ProcessadorPedidos assigns *)
fora == <<config, rpa, self_df, tabela, ordem, threads, pipeline>>

vars == <<df, clock, ordem_empates, totais_cliente, fila_fretes, hoje, resumo, retornou,
          config, tabela, ordem, pos, em_escrita, copia, arquivo, pc, excecao,
          excel, num_urgentes, enviados, retorno,
          em_execucao, thread_scheduler, loops, jobs, agendadas, chamadas,
          chamador, execucoes, self_df>>

-----------------------------------------------------------------------------
(* Bounds of the model and constants of the program *)

MaxPedidos == 3
MaxChamadas == 5
Threads == 1..MaxChamadas
MaxIntervalo == 1
MaxClock == 2
MaxAgenda == 2
TicksPerDay == 2

DIAS_ANTECEDENCIA_FRETE == 3

NaN == "NaN"
NaT == "NaT"

-----------------------------------------------------------------------------
(* datetime, timedelta *)

timedelta(days) == days * TicksPerDay

date(x) == x \div TicksPerDay

strftime(x) == date(x)

-----------------------------------------------------------------------------
(* Sequences and numbers *)

Range(s) == {s[i] : i \in DOMAIN s}

Reverse(s) == [i \in 1..Len(s) |-> s[Len(s) + 1 - i]]

RECURSIVE SumSeq(_)
SumSeq(s) == IF s = <<>> THEN 0 ELSE s[1] + SumSeq(Tail(s))

Min(S) == CHOOSE x \in S : \A y \in S : x <= y

Max(S) == CHOOSE x \in S : \A y \in S : x >= y

SeqsUpTo(S, n) == UNION {[1..k -> S] : k \in 0..n}

-----------------------------------------------------------------------------
(* Python str: a tuple of code points; a < b is lexicographic *)

StrLess(a, b) ==
    \E k \in 1..(Len(a) + 1) :
        /\ k <= Len(b)
        /\ \A j \in 1..(k - 1) : a[j] = b[j]
        /\ (k = Len(a) + 1 \/ a[k] < b[k])

-----------------------------------------------------------------------------
(* numpy argsort(kind='quicksort') and pandas nargsort / sort_values *)

Antes(a, i, j, emp) ==
    \/ a[i] < a[j]
    \/ a[i] = a[j] /\ (IF emp = "entrada" THEN i < j ELSE i > j)

argsort(a, emp) ==
    [k \in 1..Len(a) |->
        CHOOSE i \in 1..Len(a) :
            Cardinality({j \in 1..Len(a) : Antes(a, j, i, emp)}) = k - 1]

nargsort(items, ascending, emp) ==
    LET idx == [i \in 1..Len(items) |-> i]
        non_nans == IF ascending THEN items ELSE Reverse(items)
        non_nan_idx == IF ascending THEN idx ELSE Reverse(idx)
        sorter == argsort(non_nans, emp)
        indexer == [k \in 1..Len(items) |-> non_nan_idx[sorter[k]]]
    IN  IF ascending THEN indexer ELSE Reverse(indexer)

(* sort_values whose result is dropped: the rows stay as they were *)
sort_values_SemOrdenar(linhas, by, ascending, emp) == linhas

(* the rows in the opposite order of the one asked for *)
sort_values_Decrescente(linhas, by, ascending, emp) ==
    LET indexer == nargsort([i \in 1..Len(linhas) |-> linhas[i][by]], ~ascending, emp)
    IN  [k \in 1..Len(linhas) |-> linhas[indexer[k]]]

sort_values(linhas, by, ascending, emp) ==
    LET indexer == nargsort([i \in 1..Len(linhas) |-> linhas[i][by]], ascending, emp)
    IN  [k \in 1..Len(linhas) |-> linhas[indexer[k]]]

-----------------------------------------------------------------------------
(* pandas groupby(...).agg(...).reset_index() *)

SortedKeys(S) ==
    [k \in 1..Cardinality(S) |->
        CHOOSE x \in S : Cardinality({y \in S : StrLess(y, x)}) = k - 1]

Column(linhas, c) == [i \in 1..Len(linhas) |-> linhas[i][c]]

(* grouping that folds the case of the names *)
Lower(nome) ==
    [j \in 1..Len(nome) |-> IF nome[j] \in 65..90 THEN nome[j] + 32 ELSE nome[j]]

Group_SemCaixa(linhas, key) ==
    SelectSeq(linhas, LAMBDA r : Lower(r.C6_CLIENTE) = Lower(key))

Group(linhas, key) == SelectSeq(linhas, LAMBDA r : r.C6_CLIENTE = key)

groupby_agg(linhas) ==
    LET keys == SortedKeys({linhas[i].C6_CLIENTE : i \in 1..Len(linhas)})
    IN  [k \in 1..Len(keys) |->
            LET g == Group(linhas, keys[k])
            IN  [C6_CLIENTE |-> keys[k],
                 C6_NUM     |-> Len(g),
                 Qtd        |-> SumSeq(Column(g, "Qtd")),
                 Total_Item |-> SumSeq(Column(g, "Total_Item")),
                 C6_ENTREG  |-> Min(Range(Column(g, "C6_ENTREG")))]]

-----------------------------------------------------------------------------
(* ProcessadorPedidos.calcular_total_por_cliente *)

ComTotalItem(d) ==
    [colunas |-> d.colunas \cup {"Total_Item"},
     linhas  |-> [i \in 1..Len(d.linhas) |->
                    [c \in d.colunas \cup {"Total_Item"} |->
                        IF c = "Total_Item"
                        THEN d.linhas[i].Qtd * d.linhas[i].Preco
                        ELSE d.linhas[i][c]]]]

(* the new column names listed with Num_Pedidos and Qtd_Total exchanged *)
RenomearTotais_Trocado(t) ==
    [k \in 1..Len(t) |->
        [Cliente         |-> t[k].C6_CLIENTE,
         Num_Pedidos     |-> t[k].Qtd,
         Qtd_Total       |-> t[k].C6_NUM,
         Total_Valor     |-> t[k].Total_Item,
         Primeira_Entreg |-> t[k].C6_ENTREG]]

RenomearTotais(t) ==
    [k \in 1..Len(t) |->
        [Cliente         |-> t[k].C6_CLIENTE,
         Num_Pedidos     |-> t[k].C6_NUM,
         Qtd_Total       |-> t[k].Qtd,
         Total_Valor     |-> t[k].Total_Item,
         Primeira_Entreg |-> t[k].C6_ENTREG]]

(* the aggregates followed by a grand-total line *)
TotaisAgrupados_ComTotalGeral(d) ==
    Append(RenomearTotais(groupby_agg(ComTotalItem(d).linhas)),
           [Cliente         |-> <<84>>,
            Num_Pedidos     |-> Len(d.linhas),
            Qtd_Total       |-> SumSeq(Column(d.linhas, "Qtd")),
            Total_Valor     |-> SumSeq(Column(ComTotalItem(d).linhas, "Total_Item")),
            Primeira_Entreg |-> NaT])

TotaisAgrupados(d) == RenomearTotais(groupby_agg(ComTotalItem(d).linhas))

(* the sort without ascending=False *)
TotaisPorCliente_Crescente(d, emp) ==
    sort_values(TotaisAgrupados(d), "Total_Valor", TRUE, emp)

TotaisPorCliente(d, emp) ==
    sort_values(TotaisAgrupados(d), "Total_Valor", FALSE, emp)

calcular_total_por_cliente ==
    /\ df' = ComTotalItem(df)
    /\ totais_cliente' = TotaisPorCliente(df, ordem_empates)
    /\ UNCHANGED <<clock, ordem_empates, fila_fretes, hoje, resumo>>
    /\ retornou' = retornou \cup {"calcular_total_por_cliente"}

-----------------------------------------------------------------------------
(* ProcessadorPedidos.criar_fila_fretes *)

ColunasFila == {"C6_NUM", "C6_CLIENTE", "Qtd", "C6_ENTREG"}

(* the lead time added instead of subtracted *)
DataAgendamento_Soma(entreg) == entreg + timedelta(config.DIAS_ANTECEDENCIA_FRETE)

DataAgendamento(entreg) == entreg - timedelta(config.DIAS_ANTECEDENCIA_FRETE)

(* the comparison of the datetimes, without .date() *)
Status_SemDate(x, agora) == IF x <= agora THEN "URGENTE" ELSE "AGENDADO"

(* the comparison turned round *)
Status_Invertido(x, agora) == IF date(x) >= date(agora) THEN "URGENTE" ELSE "AGENDADO"

Status(x, agora) == IF date(x) <= date(agora) THEN "URGENTE" ELSE "AGENDADO"

ComSeqFrete(f) ==
    [k \in 1..Len(f) |->
        [c \in DOMAIN f[k] \cup {"Seq_Frete"} |->
            IF c = "Seq_Frete" THEN k ELSE f[k][c]]]

(* the copy of the whole table, no columns selected *)
Selecionar_Tudo(d) == d.linhas

Selecionar(d) ==
    [i \in 1..Len(d.linhas) |-> [c \in ColunasFila |-> d.linhas[i][c]]]

FilaFretes(d, agora, emp) ==
    LET base == Selecionar(d)
        agendada == [i \in 1..Len(base) |->
                    [c \in DOMAIN base[i] \cup {"Data_Agendamento_Frete"} |->
                        IF c = "Data_Agendamento_Frete"
                        THEN DataAgendamento(base[i].C6_ENTREG)
                        ELSE base[i][c]]]
        classificada == [i \in 1..Len(agendada) |->
                    [c \in DOMAIN agendada[i] \cup {"Status"} |->
                        IF c = "Status"
                        THEN Status(agendada[i].Data_Agendamento_Frete, agora)
                        ELSE agendada[i][c]]]
    IN  ComSeqFrete(sort_values(classificada, "Data_Agendamento_Frete", TRUE, emp))

criar_fila_fretes ==
    /\ hoje' = clock
    /\ fila_fretes' = FilaFretes(df, hoje', ordem_empates)
    /\ UNCHANGED <<df, clock, ordem_empates, totais_cliente, resumo>>
    /\ retornou' = retornou \cup {"criar_fila_fretes"}

-----------------------------------------------------------------------------
(* ProcessadorPedidos.gerar_resumo_executivo *)

Mean(s) == IF Len(s) = 0 THEN NaN ELSE <<SumSeq(s), Len(s)>>

(* the item value without the quantity *)
ValorItens_SoPreco(linhas) == [i \in 1..Len(linhas) |-> linhas[i].Preco]

ValorItens(linhas) == [i \in 1..Len(linhas) |-> linhas[i].Qtd * linhas[i].Preco]

ResumoExecutivo(d, agora) ==
    [data_processamento    |-> strftime(agora),
     total_pedidos         |-> Len(d.linhas),
     total_clientes        |-> Cardinality(Range(Column(d.linhas, "C6_CLIENTE"))),
     quantidade_total      |-> SumSeq(Column(d.linhas, "Qtd")),
     valor_total           |-> SumSeq(ValorItens(d.linhas)),
     valor_medio_pedido    |-> Mean(ValorItens(d.linhas)),
     data_primeira_entrega |-> IF Len(d.linhas) = 0 THEN NaT
                               ELSE Min(Range(Column(d.linhas, "C6_ENTREG"))),
     data_ultima_entrega   |-> IF Len(d.linhas) = 0 THEN NaT
                               ELSE Max(Range(Column(d.linhas, "C6_ENTREG")))]

gerar_resumo_executivo ==
    /\ resumo' = ResumoExecutivo(df, clock)
    /\ UNCHANGED <<df, clock, ordem_empates, totais_cliente, fila_fretes, hoje>>
    /\ retornou' = retornou \cup {"gerar_resumo_executivo"}

-----------------------------------------------------------------------------
(* The system clock *)

Tick ==
    /\ clock < MaxClock
    /\ clock' = clock + 1
    /\ UNCHANGED <<df, ordem_empates, totais_cliente, fila_fretes, hoje, resumo, retornou>>

-----------------------------------------------------------------------------
(* The tables a ProcessadorPedidos is constructed with *)

ColunasPedido == {"C6_NUM", "C6_CLIENTE", "C6_ENTREG", "Qtd", "Preco"}

Ab == <<65, 98>>
ab == <<97, 98>>
Clientes == {Ab, ab}

Entregas == {timedelta(DIAS_ANTECEDENCIA_FRETE) + t : t \in 0..MaxAgenda}

DuasEntregas == {Min(Entregas), Max(Entregas)}

Tabelas(clientes, entregas, qtds, precos) ==
    {[colunas |-> ColunasPedido,
      linhas  |-> [i \in 1..Len(s) |->
                    [C6_NUM     |-> i,
                     C6_CLIENTE |-> s[i][1],
                     C6_ENTREG  |-> s[i][2],
                     Qtd        |-> s[i][3],
                     Preco      |-> s[i][4]]]] :
        s \in SeqsUpTo(clientes \X entregas \X qtds \X precos, MaxPedidos)}

OrdensEmpates == {"entrada", "inversa"}

InitProcesso(empates, dias) ==
    /\ config \in [DIAS_ANTECEDENCIA_FRETE : dias]
    /\ ordem = <<>>
    /\ pos = [m \in {"calcular_total_por_cliente", "criar_fila_fretes",
                     "gerar_resumo_executivo"} |-> "chamada"]
    /\ em_escrita = FALSE
    /\ copia = <<>>
    /\ excecao = ""
    /\ excel = FALSE
    /\ num_urgentes = 0
    /\ enviados = <<>>
    /\ retorno = ""
    /\ em_execucao = FALSE
    /\ thread_scheduler = 0
    /\ loops = [t \in Threads |-> [linha |-> "", runnable |-> <<>>]]
    /\ jobs = {}
    /\ agendadas = 0
    /\ chamadas = 0
    /\ chamador = "livre"
    /\ execucoes = {}
    /\ clock = 0
    /\ ordem_empates \in empates
    /\ totais_cliente = <<>>
    /\ fila_fretes = <<>>
    /\ hoje = 0
    /\ resumo = <<>>
    /\ retornou = {}

(* df.copy(): the object ProcessadorPedidos keeps is a new one *)
df_copy_Referencia == "tabela"

df_copy == "copia"

(* a processor constructed by a caller that has a table, no file read *)
InitProcessador(tabelas, empates, dias) ==
    /\ InitProcesso(empates, dias)
    /\ tabela \in tabelas
    /\ df = tabela
    /\ self_df = df_copy
    /\ arquivo = [existe |-> FALSE, colunas |-> {}, linhas |-> <<>>]
    /\ pc = ""

InitCom(tabelas, empates) ==
    InitProcessador(tabelas, empates, {DIAS_ANTECEDENCIA_FRETE})

-----------------------------------------------------------------------------
(* criar_fila_fretes on every table, while the clock runs *)

InitFila == InitCom(Tabelas(Clientes, Entregas, {1}, {1}), OrdensEmpates)

NextFila ==
    \/ criar_fila_fretes /\ UNCHANGED fora
    \/ Tick /\ UNCHANGED fora

SpecFila == InitFila /\ [][NextFila]_vars

(* C1: in every freight queue criar_fila_fretes returns, an entry is        *)
(* URGENTE exactly when the calendar date of its dispatch date is on or    *)
(* before the calendar date of the reference now (hoje), the boundary      *)
(* included, and AGENDADO otherwise.                                       *)
C1_StatusUrgenteSse ==
    "criar_fila_fretes" \in retornou =>
        \A k \in 1..Len(fila_fretes) :
            /\ fila_fretes[k].Status \in {"URGENTE", "AGENDADO"}
            /\ fila_fretes[k].Status = "URGENTE"
                <=> date(fila_fretes[k].Data_Agendamento_Frete) <= date(hoje)

C1_Witness ==
    /\ "criar_fila_fretes" \in retornou
    /\ \E k, l \in 1..Len(fila_fretes) :
        /\ date(fila_fretes[k].Data_Agendamento_Frete) = date(hoje)
        /\ fila_fretes[k].Data_Agendamento_Frete > hoje
        /\ fila_fretes[k].Status = "URGENTE"
        /\ fila_fretes[l].Status = "AGENDADO"

(* C26: urgency is monotone in the reference date: an entry that is        *)
(* URGENTE in the queue generated at hoje is URGENTE in the queue generated *)
(* from the same table, with the same lead time, at any later date.        *)
C26_UrgenciaMonotona ==
    "criar_fila_fretes" \in retornou =>
        \A depois \in hoje..MaxClock :
            LET nova == FilaFretes(df, depois, ordem_empates)
            IN  \A k \in 1..Len(fila_fretes), l \in 1..Len(nova) :
                    ( /\ nova[l].C6_NUM = fila_fretes[k].C6_NUM
                      /\ nova[l].C6_ENTREG = fila_fretes[k].C6_ENTREG
                      /\ fila_fretes[k].Status = "URGENTE" )
                        => nova[l].Status = "URGENTE"

(* a queue generated after the clock moved, with an entry that is URGENTE  *)
(* now and was AGENDADO at the earlier date, and one URGENTE at both       *)
C26_Witness ==
    /\ "criar_fila_fretes" \in retornou
    /\ hoje > 0
    /\ \E k, l \in 1..Len(fila_fretes) :
        /\ fila_fretes[k].Status = "URGENTE"
        /\ Status(fila_fretes[k].Data_Agendamento_Frete, 0) = "AGENDADO"
        /\ fila_fretes[l].Status = "URGENTE"
        /\ Status(fila_fretes[l].Data_Agendamento_Frete, 0) = "URGENTE"

(* C27: in every freight queue the URGENTE entries form a prefix: no       *)
(* AGENDADO entry has a smaller sequence number than an URGENTE entry.     *)
C27_UrgentesPrimeiro ==
    "criar_fila_fretes" \in retornou =>
        \A k, l \in 1..Len(fila_fretes) :
            ( /\ fila_fretes[k].Status = "URGENTE"
              /\ fila_fretes[l].Status = "AGENDADO" )
                => fila_fretes[k].Seq_Frete < fila_fretes[l].Seq_Frete

(* a queue with URGENTE and AGENDADO entries, made from a table in which   *)
(* an order that is AGENDADO comes before one that is URGENTE              *)
C27_Witness ==
    /\ "criar_fila_fretes" \in retornou
    /\ \E k, l \in 1..Len(fila_fretes) :
        /\ fila_fretes[k].Status = "URGENTE"
        /\ fila_fretes[l].Status = "AGENDADO"
    /\ \E i, j \in 1..Len(df.linhas) :
        /\ i < j
        /\ Status(DataAgendamento(df.linhas[i].C6_ENTREG), hoje) = "AGENDADO"
        /\ Status(DataAgendamento(df.linhas[j].C6_ENTREG), hoje) = "URGENTE"

(* C2: the freight queue is ordered by dispatch date, non-decreasing, and  *)
(* its sequence numbers read in output order are 1, 2, ..., N, N being the *)
(* number of records of the table.                                         *)
C2_FilaOrdenadaSeq ==
    "criar_fila_fretes" \in retornou =>
        /\ Len(fila_fretes) = Len(df.linhas)
        /\ \A k \in 1..Len(fila_fretes) : fila_fretes[k].Seq_Frete = k
        /\ \A k \in 1..(Len(fila_fretes) - 1) :
            fila_fretes[k].Data_Agendamento_Frete
                <= fila_fretes[k + 1].Data_Agendamento_Frete

C2_Witness ==
    /\ "criar_fila_fretes" \in retornou
    /\ Len(fila_fretes) = MaxPedidos
    /\ fila_fretes[1].C6_NUM = MaxPedidos
    /\ fila_fretes[1].Data_Agendamento_Frete < fila_fretes[2].Data_Agendamento_Frete
    /\ fila_fretes[MaxPedidos].Seq_Frete = MaxPedidos

Carrega(entrada, pedido) ==
    /\ entrada.C6_NUM = pedido.C6_NUM
    /\ entrada.C6_CLIENTE = pedido.C6_CLIENTE
    /\ entrada.Qtd = pedido.Qtd
    /\ entrada.C6_ENTREG = pedido.C6_ENTREG

(* C3: the freight queue is a 1:1 projection of the table: its entries are *)
(* the records in some order, none dropped and none duplicated, each with  *)
(* the record's identifier, customer, quantity and delivery date, and a    *)
(* dispatch date equal to the delivery date minus the lead time of         *)
(* DIAS_ANTECEDENCIA_FRETE (3) days.                                       *)
C3_FilaProjecao ==
    "criar_fila_fretes" \in retornou =>
        /\ Len(fila_fretes) = Len(df.linhas)
        /\ \A i \in 1..Len(df.linhas) :
            Cardinality({k \in 1..Len(fila_fretes) : Carrega(fila_fretes[k], df.linhas[i])})
                = Cardinality({j \in 1..Len(df.linhas) :
                    \A c \in ColunasFila : df.linhas[j][c] = df.linhas[i][c]})
        /\ \A k \in 1..Len(fila_fretes) :
            /\ date(fila_fretes[k].C6_ENTREG)
                - date(fila_fretes[k].Data_Agendamento_Frete) = 3
            /\ fila_fretes[k].C6_ENTREG
                - fila_fretes[k].Data_Agendamento_Frete = 3 * TicksPerDay

C3_Witness ==
    /\ "criar_fila_fretes" \in retornou
    /\ Len(fila_fretes) = MaxPedidos
    /\ fila_fretes[1].C6_NUM # 1
    /\ \E k, l \in 1..Len(fila_fretes) :
        /\ fila_fretes[k].C6_CLIENTE # fila_fretes[l].C6_CLIENTE
        /\ fila_fretes[k].C6_ENTREG # fila_fretes[l].C6_ENTREG

(* C8: two records with equal dispatch dates keep their relative order of  *)
(* the table: the one that comes first in the table gets the smaller       *)
(* sequence number.                                                        *)
C8_FilaEstavel ==
    "criar_fila_fretes" \in retornou =>
        \A k, l \in 1..Len(fila_fretes) :
            /\ fila_fretes[k].Data_Agendamento_Frete
                = fila_fretes[l].Data_Agendamento_Frete
            /\ fila_fretes[k].C6_NUM < fila_fretes[l].C6_NUM
            => fila_fretes[k].Seq_Frete < fila_fretes[l].Seq_Frete

-----------------------------------------------------------------------------
(* calcular_total_por_cliente on every table *)

InitTotais == InitCom(Tabelas(Clientes, DuasEntregas, {1, 2}, {1, 2}), OrdensEmpates)

NextTotais == calcular_total_por_cliente /\ UNCHANGED fora

SpecTotais == InitTotais /\ [][NextTotais]_vars

RECURSIVE SumOver(_, _)
SumOver(I, val) ==
    IF I = {} THEN 0
    ELSE LET i == CHOOSE j \in I : TRUE IN val[i] + SumOver(I \ {i}, val)

PedidosDe(nome) == {i \in 1..Len(df.linhas) : df.linhas[i].C6_CLIENTE = nome}

PrimeiroVisto(nome) == Min(PedidosDe(nome))

C6_TotaisDecrescentes ==
    "calcular_total_por_cliente" \in retornou =>
        \A k \in 1..(Len(totais_cliente) - 1) :
            totais_cliente[k].Total_Valor >= totais_cliente[k + 1].Total_Valor

C6_Witness ==
    /\ "calcular_total_por_cliente" \in retornou
    /\ Len(totais_cliente) = 2
    /\ totais_cliente[1].Total_Valor > totais_cliente[2].Total_Valor
    /\ StrLess(totais_cliente[2].Cliente, totais_cliente[1].Cliente)

(* C7: two customers with equal summed totals are listed in first-seen     *)
(* order: the one whose first record comes earlier in the table is first.  *)
C7_EmpatePrimeiroVisto ==
    "calcular_total_por_cliente" \in retornou =>
        \A k, l \in 1..Len(totais_cliente) :
            /\ totais_cliente[k].Total_Valor = totais_cliente[l].Total_Valor
            /\ PrimeiroVisto(totais_cliente[k].Cliente)
                < PrimeiroVisto(totais_cliente[l].Cliente)
            => k < l

-----------------------------------------------------------------------------
(* gerar_resumo_executivo on every table *)

InitResumo == InitCom(Tabelas(Clientes, DuasEntregas, {1, 2}, {1, 2}), {"entrada"})

NextResumo == gerar_resumo_executivo /\ UNCHANGED fora

SpecResumo == InitResumo /\ [][NextResumo]_vars

Todos == 1..Len(df.linhas)

(* C9: the summary gerar_resumo_executivo returns has a record count equal *)
(* to the length of the table, a customer count equal to the number of     *)
(* distinct customer names, a total quantity equal to the sum of the       *)
(* records' quantities, a total value equal to the sum of quantity x price *)
(* over the records, and first and last delivery dates equal to the        *)
(* minimum and the maximum delivery date of the table.                     *)
C9_ResumoDoDataset ==
    "gerar_resumo_executivo" \in retornou =>
        /\ resumo.total_pedidos = Len(df.linhas)
        /\ resumo.total_clientes
            = Cardinality({df.linhas[i].C6_CLIENTE : i \in Todos})
        /\ resumo.quantidade_total = SumOver(Todos, [i \in Todos |-> df.linhas[i].Qtd])
        /\ resumo.valor_total
            = SumOver(Todos, [i \in Todos |-> df.linhas[i].Qtd * df.linhas[i].Preco])
        /\ Len(df.linhas) > 0 =>
            /\ \E i \in Todos : resumo.data_primeira_entrega = df.linhas[i].C6_ENTREG
            /\ \A i \in Todos : resumo.data_primeira_entrega <= df.linhas[i].C6_ENTREG
            /\ \E i \in Todos : resumo.data_ultima_entrega = df.linhas[i].C6_ENTREG
            /\ \A i \in Todos : resumo.data_ultima_entrega >= df.linhas[i].C6_ENTREG

C9_Witness ==
    /\ "gerar_resumo_executivo" \in retornou
    /\ resumo.total_pedidos = MaxPedidos
    /\ resumo.total_clientes = 2
    /\ resumo.quantidade_total > resumo.total_pedidos
    /\ resumo.valor_total > resumo.quantidade_total
    /\ resumo.data_primeira_entrega < resumo.data_ultima_entrega
    /\ df.linhas[1].C6_ENTREG = resumo.data_ultima_entrega

(* C12: on a table with no records gerar_resumo_executivo returns a        *)
(* summary whose record count, customer count, total quantity and total    *)
(* value are zero, whose mean value per record is zero or a marker of no   *)
(* data and not the undefined number (NaN), and whose first and last       *)
(* delivery dates are a marker of no data and not the undefined date (NaT).*)
C12_ResumoVazioDefinido ==
    ("gerar_resumo_executivo" \in retornou /\ Len(df.linhas) = 0) =>
        /\ resumo.total_pedidos = 0
        /\ resumo.total_clientes = 0
        /\ resumo.quantidade_total = 0
        /\ resumo.valor_total = 0
        /\ resumo.valor_medio_pedido # NaN
        /\ resumo.data_primeira_entrega # NaT
        /\ resumo.data_ultima_entrega # NaT

-----------------------------------------------------------------------------
(* One ProcessadorPedidos, its three methods called in any order and any   *)
(* number of times while the clock runs                                    *)

Init == InitCom(Tabelas(Clientes, DuasEntregas, {1}, {2}), OrdensEmpates)

Next ==
    \/ calcular_total_por_cliente /\ UNCHANGED fora
    \/ criar_fila_fretes /\ UNCHANGED fora
    \/ gerar_resumo_executivo /\ UNCHANGED fora
    \/ Tick /\ UNCHANGED fora

Spec == Init /\ [][Next]_vars

(* C10: each of calcular_total_por_cliente, criar_fila_fretes and          *)
(* gerar_resumo_executivo is deterministic in the table (the reference     *)
(* date being an input, no clock is read): a method that has returned a    *)
(* value returns the identical value whenever it is invoked again on the   *)
(* same table.                                                             *)
C10_Deterministico ==
    [][ /\ "calcular_total_por_cliente" \in retornou => totais_cliente' = totais_cliente
        /\ "criar_fila_fretes" \in retornou => fila_fretes' = fila_fretes
        /\ "gerar_resumo_executivo" \in retornou => resumo' = resumo ]_vars

(* C11: on a table with no records calcular_total_por_cliente returns an   *)
(* empty list of aggregates and criar_fila_fretes returns an empty freight *)
(* queue; both return (neither stops with an error).                       *)
C11_TabelaVaziaSaidaVazia ==
    Len(df.linhas) = 0 =>
        /\ "calcular_total_por_cliente" \in retornou => totais_cliente = <<>>
        /\ "criar_fila_fretes" \in retornou => fila_fretes = <<>>

C11_Witness ==
    /\ Len(df.linhas) = 0
    /\ {"calcular_total_por_cliente", "criar_fila_fretes"} \subseteq retornou
    /\ "Total_Item" \in df.colunas
    /\ Len(totais_cliente) = 0
    /\ Len(fila_fretes) = 0

(* C15: no call of calcular_total_por_cliente, criar_fila_fretes or         *)
(* gerar_resumo_executivo changes the table the three methods share        *)
(* (self.df): its rows, their order and its set of columns are after the   *)
(* call what they were before it.                                          *)
C15_SemEfeitoNaTabela ==
    [][ /\ df'.colunas = df.colunas
        /\ df'.linhas = df.linhas ]_vars

-----------------------------------------------------------------------------
(* criar_fila_fretes under every configured lead time *)

DiasConfigurados == {0 - 1, 0, DIAS_ANTECEDENCIA_FRETE}

InitConfig ==
    InitProcessador(Tabelas(Clientes, DuasEntregas, {1}, {1}), {"entrada"},
                    DiasConfigurados)

NextConfig ==
    \/ criar_fila_fretes /\ UNCHANGED fora
    \/ Tick /\ UNCHANGED fora

SpecConfig == InitConfig /\ [][NextConfig]_vars

(* C13: when the configured lead time DIAS_ANTECEDENCIA_FRETE is negative, *)
(* criar_fila_fretes rejects the call with a configuration error and       *)
(* returns no freight queue: no queue exists whose dispatch dates are      *)
(* later than the delivery dates.                                          *)
C13_AntecedenciaNegativaRejeitada ==
    config.DIAS_ANTECEDENCIA_FRETE < 0 =>
        /\ "criar_fila_fretes" \notin retornou
        /\ \A k \in 1..Len(fila_fretes) :
            fila_fretes[k].Data_Agendamento_Frete <= fila_fretes[k].C6_ENTREG

-----------------------------------------------------------------------------
(* One ProcessadorPedidos, each of its three methods called once, in any   *)
(* of the six orders, while the clock runs                                 *)

Metodos == {"calcular_total_por_cliente", "criar_fila_fretes", "gerar_resumo_executivo"}

InitOrdem == InitCom(Tabelas(Clientes, DuasEntregas, {1}, {2}), {"entrada"})

NextOrdem ==
    \/ /\ "calcular_total_por_cliente" \notin retornou
       /\ calcular_total_por_cliente
       /\ ordem' = Append(ordem, "calcular_total_por_cliente")
       /\ UNCHANGED <<config, rpa, self_df, tabela, threads, pipeline>>
    \/ /\ "criar_fila_fretes" \notin retornou
       /\ criar_fila_fretes
       /\ ordem' = Append(ordem, "criar_fila_fretes")
       /\ UNCHANGED <<config, rpa, self_df, tabela, threads, pipeline>>
    \/ /\ "gerar_resumo_executivo" \notin retornou
       /\ gerar_resumo_executivo
       /\ ordem' = Append(ordem, "gerar_resumo_executivo")
       /\ UNCHANGED <<config, rpa, self_df, tabela, threads, pipeline>>
    \/ Tick /\ UNCHANGED fora

SpecOrdem == InitOrdem /\ [][NextOrdem]_vars

(* C14: in whichever of the six orders the three methods are called on one *)
(* processor, each returns what it returns when it is the first call on    *)
(* that table with the same now: the aggregates, the freight queue for the *)
(* hoje it read, and the summary for the time it was generated at.         *)
C14_OrdemIndiferente ==
    /\ "calcular_total_por_cliente" \in retornou =>
            totais_cliente = TotaisPorCliente(tabela, ordem_empates)
    /\ "criar_fila_fretes" \in retornou =>
            fila_fretes = FilaFretes(tabela, hoje, ordem_empates)
    /\ "gerar_resumo_executivo" \in retornou =>
            \E agora \in 0..clock : resumo = ResumoExecutivo(tabela, agora)

C14_Witness ==
    /\ ordem = <<"calcular_total_por_cliente", "gerar_resumo_executivo", "criar_fila_fretes">>
    /\ Len(tabela.linhas) = MaxPedidos
    /\ "Total_Item" \in df.colunas
    /\ "Total_Item" \notin tabela.colunas
    /\ hoje = MaxClock
    /\ \E k \in 1..Len(fila_fretes) : fila_fretes[k].Status = "URGENTE"
    /\ resumo.data_processamento < strftime(hoje)

-----------------------------------------------------------------------------
(* One ProcessadorPedidos, its three methods called once each by three     *)
(* threads with no lock.  A thread is switched between the statements of   *)
(* its method and inside the insertion of a column into self.df, which is  *)
(* not one step; a read of self.df made while a column is being inserted   *)
(* either succeeds or raises, as the build has it.                         *)

Leitura(m, seguinte) ==
    \/ pos' = [pos EXCEPT ![m] = seguinte]
    \/ em_escrita /\ pos' = [pos EXCEPT ![m] = "erro"]

T_calcular_L38_inicio ==
    /\ pos["calcular_total_por_cliente"] = "chamada"
    /\ pos' = [pos EXCEPT !["calcular_total_por_cliente"] = "L38"]
    /\ em_escrita' = TRUE
    /\ UNCHANGED <<vars_processador, config, rpa, self_df, tabela, ordem, copia, pipeline>>

T_calcular_L38_fim ==
    /\ pos["calcular_total_por_cliente"] = "L38"
    /\ pos' = [pos EXCEPT !["calcular_total_por_cliente"] = "L41"]
    /\ df' = ComTotalItem(df)
    /\ em_escrita' = FALSE
    /\ UNCHANGED <<clock, ordem_empates, totais_cliente, fila_fretes, hoje, resumo, retornou>>
    /\ UNCHANGED <<config, rpa, self_df, tabela, ordem, copia, pipeline>>

T_calcular_L41 ==
    /\ pos["calcular_total_por_cliente"] = "L41"
    /\ pos' = [pos EXCEPT !["calcular_total_por_cliente"] = "retornou"]
    /\ totais_cliente' = TotaisPorCliente(df, ordem_empates)
    /\ retornou' = retornou \cup {"calcular_total_por_cliente"}
    /\ UNCHANGED <<df, clock, ordem_empates, fila_fretes, hoje, resumo>>
    /\ UNCHANGED <<config, rpa, self_df, tabela, ordem, em_escrita, copia, pipeline>>

T_fila_L72 ==
    /\ pos["criar_fila_fretes"] = "chamada"
    /\ Leitura("criar_fila_fretes", "L75")
    /\ copia' = IF pos'["criar_fila_fretes"] = "erro" THEN copia ELSE Selecionar(df)
    /\ UNCHANGED <<vars_processador, config, rpa, self_df, tabela, ordem, em_escrita, pipeline>>

T_fila_L75 ==
    /\ pos["criar_fila_fretes"] = "L75"
    /\ pos' = [pos EXCEPT !["criar_fila_fretes"] = "retornou"]
    /\ hoje' = clock
    /\ fila_fretes' = FilaFretes([colunas |-> ColunasFila, linhas |-> copia],
                                 hoje', ordem_empates)
    /\ retornou' = retornou \cup {"criar_fila_fretes"}
    /\ UNCHANGED <<df, clock, ordem_empates, totais_cliente, resumo>>
    /\ UNCHANGED <<config, rpa, self_df, tabela, ordem, em_escrita, copia, pipeline>>

T_resumo_L109 ==
    /\ pos["gerar_resumo_executivo"] = "chamada"
    /\ Leitura("gerar_resumo_executivo", "retornou")
    /\ IF pos'["gerar_resumo_executivo"] = "erro"
       THEN UNCHANGED <<resumo, retornou>>
       ELSE /\ resumo' = ResumoExecutivo(df, clock)
            /\ retornou' = retornou \cup {"gerar_resumo_executivo"}
    /\ UNCHANGED <<df, clock, ordem_empates, totais_cliente, fila_fretes, hoje>>
    /\ UNCHANGED <<config, rpa, self_df, tabela, ordem, em_escrita, copia, pipeline>>

InitParalelo == InitCom(Tabelas(Clientes, DuasEntregas, {1}, {2}), {"entrada"})

NextParalelo ==
    \/ T_calcular_L38_inicio
    \/ T_calcular_L38_fim
    \/ T_calcular_L41
    \/ T_fila_L72
    \/ T_fila_L75
    \/ T_resumo_L109

SpecParalelo == InitParalelo /\ [][NextParalelo]_vars

(* C16: when the three methods run in parallel on one processor with no    *)
(* lock, under every interleaving no thread writes the table the others    *)
(* read (self.df), and every method returns, with the output it has when   *)
(* it runs alone on the table.                                             *)
C16_ParaleloSemEscritaPartilhada ==
    [][ /\ df' = df
        /\ \A m \in Metodos : pos'[m] # "erro"
        /\ "calcular_total_por_cliente" \in retornou' =>
                totais_cliente' = TotaisPorCliente(tabela, ordem_empates)
        /\ "criar_fila_fretes" \in retornou' =>
                fila_fretes' = FilaFretes(tabela, hoje', ordem_empates)
        /\ "gerar_resumo_executivo" \in retornou' =>
                resumo' = ResumoExecutivo(tabela, clock) ]_vars

-----------------------------------------------------------------------------
(* LeitorCSV (src/src/core/leitor_csv.py).  A cell of the file is its text, *)
(* a tuple of code points, the empty tuple for an empty cell; the text of  *)
(* C6_ENTREG is kept as its two numbers <<dia, mes>> when it has the form  *)
(* dd/mm/yyyy and as the empty tuple otherwise.  A converted cell is <<v>>, *)
(* or the empty tuple for NaN / NaT.                                       *)

RECURSIVE lstrip(_)
lstrip(t) == IF t # <<>> /\ t[1] = 32 THEN lstrip(Tail(t)) ELSE t

strip(t) == Reverse(lstrip(Reverse(lstrip(t))))

RECURSIVE Decimal(_)
Decimal(t) ==
    IF t = <<>> THEN 0
    ELSE 10 * Decimal(SubSeq(t, 1, Len(t) - 1)) + (t[Len(t)] - 48)

to_numeric(t) ==
    IF t # <<>> /\ \A j \in 1..Len(t) : t[j] \in 48..57
    THEN <<Decimal(t)>> ELSE <<>>

DiasDoMes(mes) ==
    IF mes = 2 THEN 28 ELSE IF mes \in {4, 6, 9, 11} THEN 30 ELSE 31

RECURSIVE DiasAntes(_)
DiasAntes(mes) == IF mes = 1 THEN 0 ELSE DiasAntes(mes - 1) + DiasDoMes(mes - 1)

to_datetime(t) ==
    IF Len(t) = 2 /\ t[2] \in 1..12 /\ t[1] \in 1..DiasDoMes(t[2])
    THEN <<timedelta(DiasAntes(t[2]) + t[1] - 1)>> ELSE <<>>

ColunasConvertidas == {"Qtd", "Preco", "C6_ENTREG"}

(* dropna with no subset: a row with any empty cell is dropped *)
dropna_SemSubset(linhas) ==
    SelectSeq(linhas, LAMBDA r : \A c \in DOMAIN r : c # "C6_NUM" => r[c] # <<>>)

dropna(linhas) ==
    SelectSeq(linhas, LAMBDA r : \A c \in ColunasConvertidas : r[c] # <<>>)

limpar_dados(d) ==
    LET convertidas ==
            [i \in 1..Len(d.linhas) |->
                [c \in d.colunas |->
                    LET v == d.linhas[i][c]
                    IN  IF c = "C6_NUM" THEN v
                        ELSE IF c \in {"Qtd", "Preco"} THEN to_numeric(strip(v))
                        ELSE IF c = "C6_ENTREG" THEN to_datetime(strip(v))
                        ELSE strip(v)]]
        validas == dropna(convertidas)
    IN  [colunas |-> d.colunas,
         linhas  |-> [k \in 1..Len(validas) |->
                        [c \in d.colunas |->
                            IF c \in ColunasConvertidas
                            THEN validas[k][c][1] ELSE validas[k][c]]]]

(* a table counted as empty only when it has no columns *)
empty_SoSemColunas(d) == d.colunas = {}

empty(d) == d.colunas = {} \/ Len(d.linhas) = 0

colunas_faltantes(d) == ColunasPedido \ d.colunas

LeitorCSV_init ==
    /\ pc = "L41"
    /\ IF arquivo.existe
       THEN pc' = "L42" /\ excecao' = excecao
       ELSE pc' = "except" /\ excecao' = "FileNotFoundError"
    /\ UNCHANGED <<vars_processador, config, rpa, self_df, tabela, ordem, threads, arquivo>>
    /\ UNCHANGED <<excel, num_urgentes, enviados, retorno>>

ler_dados ==
    /\ pc = "L42"
    /\ IF empty(arquivo) \/ colunas_faltantes(arquivo) # {}
       THEN pc' = "except" /\ excecao' = "ValueError" /\ tabela' = tabela
       ELSE pc' = "L46" /\ excecao' = excecao /\ tabela' = limpar_dados(arquivo)
    /\ UNCHANGED <<vars_processador, config, rpa, self_df, ordem, threads, arquivo>>
    /\ UNCHANGED <<excel, num_urgentes, enviados, retorno>>

-----------------------------------------------------------------------------
(* The files LeitorCSV is given *)

MaxLinhas == 2

ColunasArquivo == ColunasPedido \cup {"Obs"}

SemTabela == [colunas |-> {}, linhas |-> <<>>]

LinhaCSV(i, cliente, obs, entreg, qtd, preco) ==
    [C6_NUM |-> i, C6_CLIENTE |-> cliente, Obs |-> obs,
     C6_ENTREG |-> entreg, Qtd |-> qtd, Preco |-> preco]

ArquivosCom(clientes_obs, entregs, qtds, precos) ==
    {[existe  |-> TRUE,
      colunas |-> ColunasArquivo,
      linhas  |-> [i \in 1..Len(s) |->
                    LinhaCSV(i, s[i][1][1], s[i][1][2], s[i][2], s[i][3], s[i][4])]] :
        s \in SeqsUpTo(clientes_obs \X entregs \X qtds \X precos, MaxLinhas)}

ArquivosSemColuna ==
    {[existe  |-> TRUE,
      colunas |-> ColunasArquivo \ {falta},
      linhas  |-> <<[c \in ColunasArquivo \ {falta} |->
                        LinhaCSV(1, Ab, <<>>, <<4, 1>>, <<49>>, <<50>>)[c]]>>] :
        falta \in ColunasPedido}

ArquivoInexistente == [existe |-> FALSE, colunas |-> {}, linhas |-> <<>>]

ArquivoSemBytes == [existe |-> TRUE, colunas |-> {}, linhas |-> <<>>]

InitArquivo(arquivos, empates) ==
    /\ InitProcesso(empates, {DIAS_ANTECEDENCIA_FRETE})
    /\ arquivo \in arquivos
    /\ pc = "L41"
    /\ tabela = SemTabela
    /\ df = SemTabela
    /\ self_df = ""

-----------------------------------------------------------------------------
(* LeitorCSV constructed on a file and ler_dados called, for every file *)

ClientesObs == {<<Ab, <<>>>>, <<<<32, 97, 98, 32>>, <<111>>>>}

InitLeitor ==
    InitArquivo(ArquivosCom(ClientesObs, {<<4, 1>>, <<30, 2>>},
                            {<<49>>, <<120>>, <<>>}, {<<50>>, <<>>})
                    \cup ArquivosSemColuna \cup {ArquivoInexistente, ArquivoSemBytes},
                {"entrada"})

NextLeitor == LeitorCSV_init \/ ler_dados

SpecLeitor == InitLeitor /\ [][NextLeitor]_vars

(* the rows of the file whose quantity and price are numerals and whose    *)
(* delivery date is a date of the calendar                                 *)
LinhasValidas ==
    {i \in 1..Len(arquivo.linhas) :
        /\ arquivo.linhas[i].Qtd = <<49>>
        /\ arquivo.linhas[i].Preco = <<50>>
        /\ arquivo.linhas[i].C6_ENTREG = <<4, 1>>}

(* C18: every record of the table ler_dados returns has a quantity and a   *)
(* price that are numbers and a delivery date that is a date; a row of the *)
(* file whose quantity or price is empty or not a numeral, or whose date   *)
(* does not parse, is left out, every other row is kept, and the rows kept *)
(* are in the order of the file.                                           *)
C18_SoLinhasValidas ==
    pc = "L46" =>
        /\ \A k \in 1..Len(tabela.linhas) :
            /\ tabela.linhas[k].Qtd \in Nat
            /\ tabela.linhas[k].Preco \in Nat
            /\ tabela.linhas[k].C6_ENTREG \in Nat
        /\ {tabela.linhas[k].C6_NUM : k \in 1..Len(tabela.linhas)} = LinhasValidas
        /\ \A k \in 1..(Len(tabela.linhas) - 1) :
            tabela.linhas[k].C6_NUM < tabela.linhas[k + 1].C6_NUM

C18_Witness ==
    /\ pc = "L46"
    /\ Len(arquivo.linhas) = MaxLinhas
    /\ arquivo.linhas[1].Qtd = <<120>>
    /\ arquivo.linhas[MaxLinhas].Obs = <<>>
    /\ Len(tabela.linhas) = MaxLinhas - 1
    /\ tabela.linhas[Len(tabela.linhas)].C6_NUM = MaxLinhas
    /\ tabela.linhas[Len(tabela.linhas)].Qtd = 1
    /\ tabela.linhas[Len(tabela.linhas)].Preco = 2
    /\ tabela.linhas[Len(tabela.linhas)].C6_ENTREG = timedelta(DIAS_ANTECEDENCIA_FRETE)

(* C19: constructing LeitorCSV on a path where no file exists raises       *)
(* FileNotFoundError; ler_dados raises ValueError when the file has no     *)
(* data rows and when one of the five required columns (C6_NUM,            *)
(* C6_CLIENTE, C6_ENTREG, Qtd, Preco) is not in it.                        *)
C19_ErrosDoLeitor ==
    /\ (pc # "L41" /\ ~arquivo.existe) =>
            (pc = "except" /\ excecao = "FileNotFoundError")
    /\ (pc \notin {"L41", "L42"} /\ arquivo.existe
            /\ (Len(arquivo.linhas) = 0
                \/ \E c \in ColunasPedido : c \notin arquivo.colunas)) =>
            (pc = "except" /\ excecao = "ValueError" /\ tabela = SemTabela)

C19_Witness ==
    /\ pc = "except"
    /\ excecao = "ValueError"
    /\ arquivo.existe
    /\ Len(arquivo.linhas) = 1
    /\ arquivo.colunas = ColunasArquivo \ {"Qtd"}

-----------------------------------------------------------------------------
(* processar_pedidos (src/src/main.py): one run, statement by statement,   *)
(* pc being the line of main.py the run is at                              *)

fora_pc ==
    <<config, rpa, self_df, tabela, ordem, threads, arquivo, excecao, excel,
      num_urgentes, enviados, retorno>>

(* the exception is logged where it is raised and the run goes on to the  *)
(* e-mail step                                                             *)
Levantar_SemDesvio(e) ==
    /\ pc' = "L73"
    /\ excecao' = e
    /\ UNCHANGED <<vars_processador, config, rpa, self_df, tabela, ordem, threads, arquivo>>
    /\ UNCHANGED <<excel, num_urgentes, enviados, retorno>>

(* a statement of the try block raises e: control goes to the except      *)
(* clauses and nothing else changes                                        *)
Levantar(e) ==
    /\ pc' = "except"
    /\ excecao' = e
    /\ UNCHANGED <<vars_processador, config, rpa, self_df, tabela, ordem, threads, arquivo>>
    /\ UNCHANGED <<excel, num_urgentes, enviados, retorno>>

ProcessadorPedidos_init ==
    /\ pc = "L46"
    /\ df' = tabela
    /\ self_df' = df_copy
    /\ pc' = "L49"
    /\ UNCHANGED <<clock, ordem_empates, totais_cliente, fila_fretes, hoje, resumo, retornou>>
    /\ UNCHANGED <<config, rpa, tabela, ordem, threads, arquivo>>
    /\ UNCHANGED <<excecao, excel, num_urgentes, enviados, retorno>>

Passo_L49 ==
    /\ pc = "L49"
    /\ \/ calcular_total_por_cliente /\ pc' = "L52" /\ UNCHANGED fora_pc
       \/ Levantar("KeyError")

Passo_L52 ==
    /\ pc = "L52"
    /\ \/ criar_fila_fretes /\ pc' = "L55" /\ UNCHANGED fora_pc
       \/ Levantar("KeyError")

Passo_L55 ==
    /\ pc = "L55"
    /\ \/ gerar_resumo_executivo /\ pc' = "L62" /\ UNCHANGED fora_pc
       \/ Levantar("KeyError")

(* GeradorRelatorio.gerar_excel: the file is written, or the writer raises *)
gerar_excel ==
    /\ pc = "L62"
    /\ \/ pc' = "L67" /\ excel' = TRUE /\ excecao' = excecao
       \/ pc' = "except" /\ excel' = excel /\ excecao' = "PermissionError"
    /\ UNCHANGED <<vars_processador, config, rpa, self_df, tabela, ordem, threads, arquivo>>
    /\ UNCHANGED <<num_urgentes, enviados, retorno>>

exibir_relatorio ==
    /\ pc = "L67"
    /\ \/ pc' = "L73" /\ UNCHANGED <<vars_processador, fora_pc>>
       \/ Levantar("OSError")

(* the count over the whole queue, no Status selected *)
ContarUrgentes_SemFiltro(fila) == Len(fila)

ContarUrgentes(fila) == Len(SelectSeq(fila, LAMBDA f : f.Status = "URGENTE"))

Passo_L73 ==
    /\ pc = "L73"
    /\ num_urgentes' = ContarUrgentes(fila_fretes)
    /\ pc' = "L77"
    /\ UNCHANGED <<vars_processador, config, rpa, self_df, tabela, ordem, threads, arquivo>>
    /\ UNCHANGED <<excecao, excel, enviados, retorno>>

enviar_alerta_fretes_urgentes ==
    /\ pc = "L77"
    /\ enviados' = IF num_urgentes > 0
                   THEN Append(enviados, [tipo |-> "alerta", num |-> num_urgentes])
                   ELSE enviados
    /\ pc' = "L84"
    /\ UNCHANGED <<vars_processador, config, rpa, self_df, tabela, ordem, threads, arquivo>>
    /\ UNCHANGED <<excecao, excel, num_urgentes, retorno>>

enviar_relatorio ==
    /\ pc = "L84"
    /\ enviados' = IF excel
                   THEN Append(enviados, [tipo |-> "relatorio", num |-> 0])
                   ELSE enviados
    /\ pc' = "L92"
    /\ UNCHANGED <<vars_processador, config, rpa, self_df, tabela, ordem, threads, arquivo>>
    /\ UNCHANGED <<excecao, excel, num_urgentes, retorno>>

Retornar_L92 ==
    /\ pc = "L92"
    /\ retorno' = "True"
    /\ pc' = "fim"
    /\ UNCHANGED <<vars_processador, config, rpa, self_df, tabela, ordem, threads, arquivo>>
    /\ UNCHANGED <<excecao, excel, num_urgentes, enviados>>

(* the classes the except clauses of processar_pedidos name *)
Exception == {"FileNotFoundError", "ValueError", "PermissionError", "KeyError", "OSError"}

(* the except clauses without the last one, except Exception *)
Tratada_SemExcept(e) == e \in {"FileNotFoundError", "ValueError"}

Tratada(e) == e \in {"FileNotFoundError", "ValueError"} \/ e \in Exception

Tratar_L94 ==
    /\ pc = "except"
    /\ IF Tratada(excecao)
       THEN retorno' = "False" /\ pc' = "fim"
       ELSE retorno' = retorno /\ pc' = "propagada"
    /\ UNCHANGED <<vars_processador, config, rpa, self_df, tabela, ordem, threads, arquivo>>
    /\ UNCHANGED <<excecao, excel, num_urgentes, enviados>>

processar_pedidos ==
    \/ LeitorCSV_init
    \/ ler_dados
    \/ ProcessadorPedidos_init
    \/ Passo_L49
    \/ Passo_L52
    \/ Passo_L55
    \/ gerar_excel
    \/ exibir_relatorio
    \/ Passo_L73
    \/ enviar_alerta_fretes_urgentes
    \/ enviar_relatorio
    \/ Retornar_L92
    \/ Tratar_L94

InitPipeline ==
    InitArquivo(ArquivosCom(ClientesObs, {<<4, 1>>, <<5, 1>>, <<30, 2>>},
                            {<<49>>}, {<<50>>})
                    \cup ArquivosSemColuna \cup {ArquivoInexistente, ArquivoSemBytes},
                {"entrada"})

NextPipeline ==
    \/ processar_pedidos
    \/ Tick /\ UNCHANGED fora

SpecPipeline == InitPipeline /\ [][NextPipeline]_vars

Alertas == {k \in 1..Len(enviados) : enviados[k].tipo = "alerta"}

Urgentes == {k \in 1..Len(fila_fretes) : fila_fretes[k].Status = "URGENTE"}

(* C17: in a run of processar_pedidos the count of urgent freights handed  *)
(* to the notifier is the number of entries of that run's freight queue    *)
(* whose Status is URGENTE, and the alert of urgent freights is sent if    *)
(* and only if that count is greater than zero.                            *)
C17_AlertaSseUrgentes ==
    /\ \A k \in Alertas :
        /\ enviados[k].num = Cardinality(Urgentes)
        /\ enviados[k].num > 0
    /\ Cardinality(Alertas) <= 1
    /\ (pc \in {"L77", "L84", "L92"} \/ retorno = "True") =>
            num_urgentes = Cardinality(Urgentes)
    /\ (pc \in {"L84", "L92"} \/ retorno = "True") =>
            (Alertas # {} <=> Cardinality(Urgentes) > 0)

C17_Witness ==
    /\ retorno = "True"
    /\ Len(fila_fretes) = MaxLinhas
    /\ Cardinality(Urgentes) = 1
    /\ enviados[1] = [tipo |-> "alerta", num |-> 1]

(* C20: processar_pedidos lets no exception out to its caller: it returns  *)
(* True when reading the file, the three derivations, the reports and the  *)
(* e-mail step have all completed, and False when a step raised            *)
(* FileNotFoundError, ValueError or any other exception.                   *)
C20_TrueOuFalse ==
    /\ pc # "propagada"
    /\ pc # "fim" => retorno = ""
    /\ pc = "fim" => retorno = (IF excecao = "" THEN "True" ELSE "False")
    /\ retorno = "True" =>
        /\ arquivo.existe /\ tabela # SemTabela
        /\ retornou = Metodos
        /\ excel
        /\ \E k \in 1..Len(enviados) : enviados[k].tipo = "relatorio"
    /\ excecao # "" => pc \in {"except", "fim"}

C20_Witness ==
    /\ pc = "fim"
    /\ retorno = "False"
    /\ excecao = "PermissionError"
    /\ retornou = Metodos
    /\ ~excel
    /\ enviados = <<>>

(* the statements of the try block of processar_pedidos, in order *)
Passos ==
    <<"L41", "L42", "L46", "L49", "L52", "L55", "L62", "L67", "L73", "L77",
      "L84", "L92", "fim">>

Posicao(p) == CHOOSE k \in 1..Len(Passos) : Passos[k] = p

-----------------------------------------------------------------------------
(* A caller that has a table constructs a ProcessadorPedidos on it and     *)
(* calls its methods, any number of times in any order.  A statement that  *)
(* assigns into self.df assigns into the object self.df is: the caller's   *)
(* table is that object only if the constructor kept the one it was given. *)

ProcessadorPedidos_novo ==
    /\ self_df = ""
    /\ df' = tabela
    /\ self_df' = df_copy
    /\ UNCHANGED <<clock, ordem_empates, totais_cliente, fila_fretes, hoje, resumo, retornou>>
    /\ UNCHANGED <<config, rpa, tabela, ordem, threads, pipeline>>

TabelaDoChamador ==
    /\ tabela' = IF self_df = "tabela" THEN df' ELSE tabela
    /\ UNCHANGED <<config, rpa, self_df, ordem, threads, pipeline>>

InitCopia ==
    /\ InitProcesso({"entrada"}, {DIAS_ANTECEDENCIA_FRETE})
    /\ tabela \in Tabelas(Clientes, DuasEntregas, {1}, {2})
    /\ df = SemTabela
    /\ self_df = ""
    /\ arquivo = ArquivoInexistente
    /\ pc = ""

NextCopia ==
    \/ ProcessadorPedidos_novo
    \/ self_df # "" /\ calcular_total_por_cliente /\ TabelaDoChamador
    \/ self_df # "" /\ criar_fila_fretes /\ TabelaDoChamador
    \/ self_df # "" /\ gerar_resumo_executivo /\ TabelaDoChamador
    \/ Tick /\ UNCHANGED fora

SpecCopia == InitCopia /\ [][NextCopia]_vars

(* C28: the table the caller passes to ProcessadorPedidos is never         *)
(* modified: the constructor and every call of calcular_total_por_cliente, *)
(* criar_fila_fretes and gerar_resumo_executivo leave it with the same     *)
(* rows, in the same order, and the same columns.                          *)
C28_TabelaDoChamadorIntacta ==
    [][ /\ tabela'.colunas = tabela.colunas
        /\ tabela'.linhas = tabela.linhas ]_vars

(* the three methods have returned: the processor's table has the column   *)
(* Total_Item, the caller's has not                                        *)
C28_Witness ==
    /\ self_df # ""
    /\ retornou = Metodos
    /\ tabela.linhas # <<>>
    /\ "Total_Item" \in df.colunas
    /\ "Total_Item" \notin tabela.colunas

-----------------------------------------------------------------------------
(* AutomacaoRPA (src/src/automacao/rpa_automacao.py) and the schedule      *)
(* module it drives.  One thread (chamador) calls agendar_tarefa,          *)
(* iniciar_scheduler and parar_scheduler, one call after the other; every  *)
(* _loop_scheduler runs in a thread of its own, loops[t].linha being the   *)
(* line it is at ("" before it is started, "fim" after its while ends).    *)
(* A job is due when its next_run is not after the clock; the interval of  *)
(* a job is counted in ticks of the clock.                                 *)

fora_rpa ==
    <<df, ordem_empates, totais_cliente, fila_fretes, hoje, resumo, retornou,
      config, self_df, tabela, ordem, threads, pipeline>>

Vivas == {t \in Threads : loops[t].linha \notin {"", "fim"}}

Chamada ==
    /\ chamador = "livre"
    /\ chamadas < MaxChamadas
    /\ chamadas' = chamadas + 1

agendar_tarefa ==
    /\ Chamada
    /\ agendadas' = agendadas + 1
    /\ \E intervalo_minutos \in 1..MaxIntervalo :
            jobs' = jobs \cup {[id |-> agendadas', interval |-> intervalo_minutos,
                                next_run |-> clock + intervalo_minutos]}
    /\ UNCHANGED <<em_execucao, thread_scheduler, loops, chamador, execucoes>>
    /\ UNCHANGED <<clock, fora_rpa>>

iniciar_scheduler_chamada ==
    /\ Chamada
    /\ chamador' = "L78"
    /\ UNCHANGED <<em_execucao, thread_scheduler, loops, jobs, agendadas, execucoes>>
    /\ UNCHANGED <<clock, fora_rpa>>

(* the thread that runs the new loop: thread_scheduler when it is started  *)
(* in the background, the calling thread otherwise                         *)
iniciar_scheduler_SemTeste ==
    /\ chamador = "L78"
    /\ chamador' = "livre"
    /\ em_execucao' = TRUE
    /\ \E em_background \in BOOLEAN :
        LET t == CHOOSE u \in Threads :
                    /\ loops[u].linha = ""
                    /\ \A v \in 1..(u - 1) : loops[v].linha # ""
        IN  /\ loops' = [loops EXCEPT ![t] = [linha |-> "L99", runnable |-> <<>>]]
            /\ thread_scheduler' = IF em_background THEN t
                                   ELSE thread_scheduler
    /\ UNCHANGED <<jobs, agendadas, chamadas, execucoes>>
    /\ UNCHANGED <<clock, fora_rpa>>

iniciar_scheduler ==
    /\ chamador = "L78"
    /\ chamador' = "livre"
    /\ IF em_execucao
       THEN UNCHANGED <<em_execucao, thread_scheduler, loops>>
       ELSE /\ em_execucao' = TRUE
            /\ \E em_background \in BOOLEAN :
                LET t == CHOOSE u \in Threads :
                            /\ loops[u].linha = ""
                            /\ \A v \in 1..(u - 1) : loops[v].linha # ""
                IN  /\ loops' = [loops EXCEPT ![t] = [linha |-> "L99", runnable |-> <<>>]]
                    /\ thread_scheduler' = IF em_background THEN t
                                           ELSE thread_scheduler
    /\ UNCHANGED <<jobs, agendadas, chamadas, execucoes>>
    /\ UNCHANGED <<clock, fora_rpa>>

(* while self.em_execucao, on entry and after each time.sleep(1) *)
loop_L99(t) ==
    /\ loops[t].linha \in {"L99", "L102"}
    /\ loops' = [loops EXCEPT ![t].linha = IF em_execucao THEN "L101" ELSE "fim"]
    /\ UNCHANGED <<em_execucao, thread_scheduler, jobs, agendadas, chamadas,
                   chamador, execucoes>>
    /\ UNCHANGED <<clock, fora_rpa>>

(* schedule.run_pending: the jobs that are due when it is called, in the   *)
(* order of their next_run, are the ones this call runs                    *)
runnable_jobs ==
    LET due == {j \in jobs : j.next_run <= clock}
        antes(a, b) == \/ a.next_run < b.next_run
                       \/ a.next_run = b.next_run /\ a.id < b.id
    IN  [k \in 1..Cardinality(due) |->
            (CHOOSE x \in due : Cardinality({y \in due : antes(y, x)}) = k - 1).id]

loop_L101(t) ==
    /\ loops[t].linha = "L101"
    /\ loops' = [loops EXCEPT ![t] =
                    IF runnable_jobs = <<>>
                    THEN [linha |-> "L102", runnable |-> <<>>]
                    ELSE [linha |-> "L65", runnable |-> runnable_jobs]]
    /\ UNCHANGED <<em_execucao, thread_scheduler, jobs, agendadas, chamadas,
                   chamador, execucoes>>
    /\ UNCHANGED <<clock, fora_rpa>>

(* Job._schedule_next_run, which schedule calls when the job function has *)
(* returned: the job stays in the list, its next run one interval ahead    *)
schedule_next_run_Cancela(job) == {j \in jobs : j.id # job}

schedule_next_run(job) ==
    {IF j.id = job THEN [j EXCEPT !.next_run = clock + j.interval] ELSE j : j \in jobs}

(* _executar_com_log: funcao() returns or raises; either way the method    *)
(* returns, schedule sets the next run of the job and goes on to the next  *)
(* job of this run_pending; execucoes keeps the jobs whose last execution  *)
(* raised                                                                  *)
executar_com_log(t) ==
    /\ loops[t].linha = "L65"
    /\ LET job == Head(loops[t].runnable)
           resto == Tail(loops[t].runnable)
       IN  /\ \E fim \in {"retornou", "levantou"} :
                    execucoes' = IF fim = "levantou" THEN execucoes \cup {job}
                                 ELSE execucoes \ {job}
           /\ jobs' = schedule_next_run(job)
           /\ loops' = [loops EXCEPT ![t] =
                           [linha |-> IF resto = <<>> THEN "L102" ELSE "L65",
                            runnable |-> resto]]
    /\ UNCHANGED <<em_execucao, thread_scheduler, agendadas, chamadas, chamador>>
    /\ UNCHANGED <<clock, fora_rpa>>

parar_scheduler_L110 ==
    /\ Chamada
    /\ em_execucao' = FALSE
    /\ chamador' = "L112"
    /\ UNCHANGED <<thread_scheduler, loops, jobs, agendadas, execucoes>>
    /\ UNCHANGED <<clock, fora_rpa>>

(* join(timeout=5) returns when the thread has ended, or after the timeout *)
(* while the thread is still inside a scheduled task; schedule.clear()     *)
(* follows                                                                 *)
parar_scheduler_L112 ==
    /\ chamador = "L112"
    /\ \/ thread_scheduler = 0
       \/ thread_scheduler # 0 /\ loops[thread_scheduler].linha \in {"fim", "L65"}
    /\ jobs' = {}
    /\ chamador' = "livre"
    /\ UNCHANGED <<em_execucao, thread_scheduler, loops, agendadas, chamadas, execucoes>>
    /\ UNCHANGED <<clock, fora_rpa>>

loop_scheduler(t) ==
    \/ loop_L99(t)
    \/ loop_L101(t)
    \/ executar_com_log(t)

InitScheduler ==
    /\ InitProcesso({"entrada"}, {DIAS_ANTECEDENCIA_FRETE})
    /\ arquivo = ArquivoInexistente
    /\ pc = ""
    /\ tabela = SemTabela
    /\ df = SemTabela
    /\ self_df = ""

NextScheduler ==
    \/ agendar_tarefa
    \/ iniciar_scheduler_chamada
    \/ iniciar_scheduler
    \/ parar_scheduler_L110
    \/ parar_scheduler_L112
    \/ \E t \in Threads : loop_scheduler(t)
    \/ Tick /\ UNCHANGED fora

SpecScheduler == InitScheduler /\ [][NextScheduler]_vars

(* C22: whatever sequence of iniciar_scheduler and parar_scheduler calls   *)
(* is made, at most one _loop_scheduler is running at any time, and at     *)
(* most one scheduled task is being executed at any time.                  *)
C22_UmSoLoop ==
    /\ Cardinality(Vivas) <= 1
    /\ Cardinality({t \in Threads : loops[t].linha = "L65"}) <= 1

(* C23: a scheduled task that raises neither ends the loop that ran it nor *)
(* takes the task off the schedule: after _executar_com_log the loop is    *)
(* still inside its while, the job is scheduled as before with its next    *)
(* run one interval ahead, and a loop that calls run_pending when a job is *)
(* due runs it.                                                            *)
C23_ExcecaoNaoParaOScheduler ==
    [][\A t \in Threads :
        /\ (loops[t].linha = "L65" /\ loops'[t] # loops[t]
                /\ Head(loops[t].runnable) \in execucoes') =>
              LET job == Head(loops[t].runnable)
              IN  /\ loops'[t].linha \in {"L65", "L102"}
                  /\ {j.id : j \in jobs'} = {j.id : j \in jobs}
                  /\ \A j \in jobs' :
                        j.id = job => j.next_run = clock + j.interval
        /\ (loops[t].linha = "L101" /\ loops'[t] # loops[t]) =>
              \A j \in jobs : j.next_run <= clock =>
                  /\ loops'[t].linha = "L65"
                  /\ j.id \in Range(loops'[t].runnable)
      ]_vars

(* a task that raised is being executed again, by the loop that ran it *)
C23_Witness ==
    \E t \in Threads :
        /\ em_execucao
        /\ loops[t].linha = "L65"
        /\ Head(loops[t].runnable) \in execucoes
        /\ \A u \in Threads : u # t => loops[u].linha = ""

(* C24: iniciar_scheduler called while em_execucao is true returns with    *)
(* em_execucao still true, the same thread_scheduler, and no thread or     *)
(* loop started.                                                           *)
C24_IniciarDuasVezes ==
    [][(chamador = "L78" /\ chamador' = "livre" /\ em_execucao) =>
            /\ em_execucao'
            /\ thread_scheduler' = thread_scheduler
            /\ loops' = loops
            /\ jobs' = jobs
      ]_vars

(* two calls were made, both iniciar_scheduler: one loop was started *)
C24_Witness ==
    /\ chamador = "livre"
    /\ chamadas = 2
    /\ agendadas = 0
    /\ em_execucao
    /\ loops[1].linha # ""
    /\ \A t \in Threads : t # 1 => loops[t].linha = ""

(* The threads of the loops are scheduled by the operating system, and a   *)
(* task that is being executed terminates: a loop that can take a step     *)
(* eventually takes it.                                                    *)
FairScheduler ==
    /\ InitScheduler
    /\ [][NextScheduler]_vars
    /\ \A t \in Threads : WF_vars(loop_scheduler(t))

(* C25: when parar_scheduler returns, em_execucao is false and the job     *)
(* list is empty; every loop that is alive once parar_scheduler has        *)
(* returned eventually leaves its while; and a loop that has left its      *)
(* while runs nothing afterwards.                                          *)
C25_PararTermina ==
    /\ [][(chamador = "L112" /\ chamador' = "livre") =>
                (~em_execucao' /\ jobs' = {})]_vars
    /\ [][\A t \in Threads : loops[t].linha = "fim" => loops'[t] = loops[t]]_vars
    /\ \A t \in Threads :
            (chamador = "livre" /\ ~em_execucao /\ t \in Vivas)
                ~> (loops[t].linha = "fim")

====
